---- MODULE Spec2Model ----
(***************************************************************************)
(* Model of the form auto-save service (FormAutoSaveService, the file      *)
(* form-autosave.service.js of the repository) together with the part of   *)
(* RegistrationController that submits the membership form.                *)
(*                                                                         *)
(* Time is counted in seconds.  A JavaScript object is a sequence of       *)
(* key/value pairs in insertion order; the JSON text of an object is the   *)
(* same sequence without the pairs whose value is undefined.               *)
(***************************************************************************)
EXTENDS Integers, Sequences, FiniteSets, TLC

\* ------------------------------------------------------------------ bounds
MaxTime == 3
MaxInFlight == 2
MaxTimers == 2
MaxRetryCount == 4
MaxUploads == 1
MaxEvents == 2
MaxSyncTime == 9
MaxSyncEvents == 2
MaxTokenFailures == 2
MaxReloads == 2
MaxLaterTime == 34
MaxFormLen == 3

\* ------------------------------------------------------- program constants
SAVE_INTERVAL == 30
MAX_RETRIES == 3
DEBOUNCE_DELAY == 2
RETRY_DELAY == 5

\* ------------------------------------------------------------ JS values
Null == "<null>"
Undefined == "<undefined>"
Token == "csrf"
UploadFailed == "<failed>"
OfflineNotice == "Auto-save failed. Working offline - changes will be saved locally."
MembershipForm == "membershipForm"
UpdateForm == "updateForm"
FileSlots == {"aadharFront", "aadharBack", "profilePhoto", "casteCertificate"}
NoItem == [has |-> FALSE, valid |-> TRUE, text |-> <<>>]

VARIABLES
  now,           \* seconds since the page was loaded
  page,          \* "loading" | "ready" | "unloaded"
  formOrder,     \* the forms of the document, in document order
  dom,           \* form id -> sequence of form elements
  labels,        \* text of the <slot>Name spans
  indicator,     \* text of #autoSaveIndicator
  errorMsg,      \* text of #autoSaveError
  storage,       \* localStorage item 'form_autosave_data'
  enabled, retryCount, saveTimer, currentFormId, csrfToken, lastSyncTime,
  timers,        \* pending setTimeout callbacks
  pushes,        \* autoSaveForm requests sent and not yet answered
  tokenFetches,  \* getCsrfToken requests sent and not yet answered
  uploads,       \* uploadFile requests sent and not yet answered
  submitting,    \* a submitApplication request is outstanding
  submitted,     \* the backend answered submitApplication with success
  lastActivity,  \* history: time of the handleFormChange call whose timer is pending (0: none)
  rearmed,       \* history: the pending debounce timer replaced an earlier one
  events,        \* history: number of user and API events so far
  tokenFailures, \* history: getCsrfToken answers that failed in a row
  quotaExceeded, \* environment: localStorage.setItem throws QuotaExceededError
  accepted,      \* history: latest _timestamp among the snapshots the endpoint accepted
  otpVerification, \* the OtpVerification component: config, state and elements
  otpMap,        \* OtpService.otpMap: identifier -> [otp, expiry]
  otpSpent,      \* history: identifier -> code verifyOtp consumed since the last storeOtp
  otpCall        \* history: the last OtpService call and what it returned

vars == <<now, page, formOrder, dom, labels, indicator, errorMsg, storage,
          enabled, retryCount, saveTimer, currentFormId, csrfToken, lastSyncTime,
          timers, pushes, tokenFetches, uploads, submitting, submitted,
          lastActivity, rearmed, events, tokenFailures, quotaExceeded,
          accepted, otpVerification, otpMap, otpSpent, otpCall>>

domVars == <<formOrder, dom, labels>>
svcVars == <<enabled, retryCount, saveTimer, currentFormId, csrfToken, lastSyncTime>>
netVars == <<pushes, tokenFetches, uploads, submitting, submitted>>
histVars == <<lastActivity, rearmed>>
otpVars == <<otpVerification, otpMap, otpSpent, otpCall>>
envVars == <<tokenFailures, quotaExceeded, accepted, otpVars>>

\* ------------------------------------------------------------ JS objects
ObjHas(o, key) == \E i \in DOMAIN o : o[i].k = key

ObjGet(o, key) ==
  IF ObjHas(o, key) THEN o[CHOOSE i \in DOMAIN o : o[i].k = key].v ELSE Undefined

ObjSet(o, key, val) ==
  IF ObjHas(o, key)
    THEN [i \in DOMAIN o |-> IF o[i].k = key THEN [k |-> key, v |-> val] ELSE o[i]]
    ELSE Append(o, [k |-> key, v |-> val])

IsUndefinedPair(p) == p.k \notin {"_timestamp"} /\ p.v = Undefined

JSONstringify(o) == SelectSeq(o, LAMBDA p : ~IsUndefinedPair(p))

Truthy(v) == v \notin {"", Undefined, Null}

\* String.prototype.trim on the values of the model
Trim(s) == IF s = " " THEN "" ELSE s

\* id.includes('Name') on the element ids of the model
IncludesName(id) ==
  id \in {"firstName", "lastName", "fatherName", "motherName", "emergencyName"}

DateNow == SAVE_INTERVAL + 1 + now

\* ------------------------------------------------------------ timers, requests
FreshId(S) == CHOOSE n \in 1..(Cardinality(S) + 1) : \A x \in S : x.id # n

\* a clearTimeout that cancels nothing
clearTimeoutNothing(tms, id) == tms

clearTimeout(tms, id) == {t \in tms : t.id # id}

\* setTimeout returns an id no pending timer has and no handle in `held` names
TimerId(tms, held) ==
  CHOOSE n \in 1..(Cardinality(tms) + Cardinality(held) + 1) :
    n \notin held /\ \A t \in tms : t.id # n

\* a setTimeout that ignores its delay
setTimeoutImmediate(tms, held, kind, delay, data) ==
  tms \cup {[id |-> TimerId(tms, held), kind |-> kind, due |-> now, data |-> data]}

setTimeout(tms, held, kind, delay, data) ==
  tms \cup {[id |-> TimerId(tms, held), kind |-> kind, due |-> now + delay, data |-> data]}

fetch(reqs, payload) == reqs \cup {[id |-> FreshId(reqs), data |-> payload]}

\* ------------------------------------------------------------ the form
Element(id, name, type, value) ==
  [id |-> id, name |-> name, type |-> type, value |-> value, checked |-> FALSE]

KeyOf(e) == IF e.name # "" THEN e.name ELSE e.id

\* an extraction loop without the two exclusions
RECURSIVE CollectFieldsAll(_, _)
CollectFieldsAll(els, acc) ==
  IF els = <<>> THEN acc
  ELSE LET e == Head(els) IN
       CollectFieldsAll(Tail(els),
         IF e.type \in {"checkbox", "radio"}
           THEN ObjSet(acc, KeyOf(e), IF e.checked THEN e.value ELSE "")
         ELSE ObjSet(acc, KeyOf(e), e.value))

\* the loop of getFormData over form.elements
RECURSIVE CollectFields(_, _)
CollectFields(els, acc) ==
  IF els = <<>> THEN acc
  ELSE LET e == Head(els) IN
       CollectFields(Tail(els),
         IF e.name = "" /\ e.id = "" THEN acc
         ELSE IF e.type \in {"checkbox", "radio"}
           THEN ObjSet(acc, KeyOf(e), IF e.checked THEN e.value ELSE "")
         ELSE IF e.type = "file" THEN acc
         ELSE ObjSet(acc, KeyOf(e), e.value))

\* a capture taken when the document was loaded, not at the call
getFormDataAtLoad ==
  IF currentFormId \notin DOMAIN dom THEN <<>>
  ELSE ObjSet(ObjSet(CollectFields([i \in DOMAIN dom[currentFormId] |->
                                     [dom[currentFormId][i] EXCEPT !.value = ""]], <<>>),
                     "_timestamp", SAVE_INTERVAL + 1),
              "_formId", currentFormId)

getFormData ==
  IF currentFormId \notin DOMAIN dom THEN <<>>
  ELSE ObjSet(ObjSet(CollectFields(dom[currentFormId], <<>>), "_timestamp", DateNow),
              "_formId", currentFormId)

\* isFormFilled, for the form with id cur in document d
isFormFilled(d, cur) ==
  /\ cur \in DOMAIN d
  /\ \E i \in DOMAIN d[cur] :
       LET e == d[cur][i] IN
       /\ e.type \in {"text", "email", "tel"}
       /\ Trim(e.value) # ""
       /\ ~IncludesName(e.id)
       /\ e.id # "declarationSignature"

\* a restore that leaves the checked state of radios and checkboxes alone
RestoreElementValueOnly(e, formData) ==
  IF ~ObjHas(formData, KeyOf(e)) THEN e
  ELSE IF e.type \in {"checkbox", "radio", "file"} THEN e
  ELSE [e EXCEPT !.value = IF Truthy(ObjGet(formData, KeyOf(e)))
                             THEN ObjGet(formData, KeyOf(e)) ELSE ""]

\* the assignment restoreSavedData makes to one element
RestoreElement(e, formData) ==
  IF ~ObjHas(formData, KeyOf(e)) THEN e
  ELSE IF e.type \in {"checkbox", "radio"}
    THEN [e EXCEPT !.checked = (ObjGet(formData, KeyOf(e)) = e.value)]
  ELSE IF e.type # "file"
    THEN [e EXCEPT !.value = IF Truthy(ObjGet(formData, KeyOf(e)))
                               THEN ObjGet(formData, KeyOf(e)) ELSE ""]
  ELSE e

\* the form restoreSavedData writes to: getElementById(formData._formId || currentFormId)
RestoreTarget(formData, cur) ==
  IF Truthy(ObjGet(formData, "_formId")) THEN ObjGet(formData, "_formId") ELSE cur

\* a restore that applies whatever pairs the stored text shows, parsed or not
restoreSavedDataUnparsed(d, lbl, cur) ==
  LET skip == [dom |-> d, labels |-> lbl, applied |-> FALSE] IN
  IF ~storage.has THEN skip
  ELSE LET formData == storage.text
           target == RestoreTarget(formData, cur) IN
       IF target \notin DOMAIN d THEN skip
       ELSE [dom |-> [d EXCEPT ![target] =
                        [i \in DOMAIN d[target] |-> RestoreElement(d[target][i], formData)]],
             labels |-> lbl, applied |-> TRUE]

\* a restore that labels every slot the snapshot has a key for
restoreSavedDataLabelPresent(d, lbl, cur) ==
  LET skip == [dom |-> d, labels |-> lbl, applied |-> FALSE] IN
  IF ~storage.has THEN skip
  ELSE IF ~storage.valid THEN skip
  ELSE LET formData == storage.text
           target == RestoreTarget(formData, cur) IN
       IF target \notin DOMAIN d THEN skip
       ELSE IF isFormFilled(d, cur) THEN skip
       ELSE [dom |-> [d EXCEPT ![target] =
                        [i \in DOMAIN d[target] |-> RestoreElement(d[target][i], formData)]],
             labels |-> [s \in DOMAIN lbl |->
                          IF s \in FileSlots /\ ObjHas(formData, s)
                            THEN "Previously uploaded" ELSE lbl[s]],
             applied |-> TRUE]

\* restoreSavedData on document d with tracked form cur: the new document,
\* the new labels and whether the snapshot was applied
restoreSavedData(d, lbl, cur) ==
  LET skip == [dom |-> d, labels |-> lbl, applied |-> FALSE] IN
  IF ~storage.has THEN skip
  ELSE IF ~storage.valid THEN skip
  ELSE LET formData == storage.text
           target == RestoreTarget(formData, cur) IN
       IF target \notin DOMAIN d THEN skip
       ELSE IF isFormFilled(d, cur) THEN skip
       ELSE [dom |-> [d EXCEPT ![target] =
                        [i \in DOMAIN d[target] |-> RestoreElement(d[target][i], formData)]],
             labels |-> [s \in DOMAIN lbl |->
                          IF s \in FileSlots /\ Truthy(ObjGet(formData, s))
                            THEN "Previously uploaded" ELSE lbl[s]],
             applied |-> TRUE]

\* hasUnsavedChanges
hasUnsavedChanges ==
  /\ storage.has
  /\ (~storage.valid \/ storage.text # JSONstringify(getFormData))

\* ------------------------------------------------------------ the service
\* a setItem that never throws
setItemAlways(data) == [has |-> TRUE, valid |-> TRUE, text |-> JSONstringify(data)]

\* saveToLocalStorage: the new item; setItem throwing leaves the item as it was
saveToLocalStorage(data) ==
  IF quotaExceeded THEN storage
  ELSE [has |-> TRUE, valid |-> TRUE, text |-> JSONstringify(data)]

\* showAutoSaveIndicator runs only after a setItem that did not throw
showAutoSaveIndicator == IF quotaExceeded THEN indicator ELSE "Changes saved locally"

\* syncToServer up to its first await: the request it sends
syncToServer(formData, ps, tfs) ==
  IF csrfToken = Null
    THEN [pushes |-> ps,
          tokenFetches |-> fetch(tfs, [cont |-> "sync", formData |-> formData])]
    ELSE [pushes |-> fetch(ps, formData), tokenFetches |-> tfs]

\* a sync condition that holds on every save
SyncDueAlways(forceSync) == TRUE

SyncDue(forceSync) == forceSync \/ DateNow - lastSyncTime > SAVE_INTERVAL

\* a saveFormData that does nothing once the offline notice is shown
saveFormDataUnlessOffline(forceSync) ==
  IF ~enabled \/ errorMsg = OfflineNotice
    THEN [storage |-> storage, indicator |-> indicator, pushes |-> pushes,
          tokenFetches |-> tokenFetches, saved |-> FALSE]
    ELSE LET formData == getFormData
             net == IF SyncDue(forceSync)
                      THEN syncToServer(formData, pushes, tokenFetches)
                      ELSE [pushes |-> pushes, tokenFetches |-> tokenFetches]
         IN [storage |-> saveToLocalStorage(formData),
             indicator |-> showAutoSaveIndicator,
             pushes |-> net.pushes, tokenFetches |-> net.tokenFetches, saved |-> TRUE]

\* saveFormData up to its first await
saveFormData(forceSync) ==
  IF ~enabled
    THEN [storage |-> storage, indicator |-> indicator, pushes |-> pushes,
          tokenFetches |-> tokenFetches, saved |-> FALSE]
    ELSE LET formData == getFormData
             net == IF SyncDue(forceSync)
                      THEN syncToServer(formData, pushes, tokenFetches)
                      ELSE [pushes |-> pushes, tokenFetches |-> tokenFetches]
         IN [storage |-> saveToLocalStorage(formData),
             indicator |-> showAutoSaveIndicator,
             pushes |-> net.pushes, tokenFetches |-> net.tokenFetches, saved |-> TRUE]

\* handleFormChange: the debounce
handleFormChange ==
  IF ~enabled
    THEN [timers |-> timers, saveTimer |-> saveTimer,
          lastActivity |-> lastActivity, rearmed |-> rearmed]
    ELSE LET cleared == clearTimeout(timers, saveTimer)
             armed == setTimeout(cleared, {}, "debounce", DEBOUNCE_DELAY, <<>>)
         IN [timers |-> armed,
             saveTimer |-> (CHOOSE t \in armed \ cleared : TRUE).id,
             lastActivity |-> now,
             rearmed |-> rearmed \/ (\E t \in timers : t.id = saveTimer)]

RequiredFields ==
  {"firstName", "lastName", "gender", "dob", "age", "caste", "surname", "fatherName",
   "motherName", "currentAddress1", "currentCity", "currentState", "currentPincode",
   "currentCountry", "primaryMobile", "primaryEmail", "aadharNumber", "emergencyName",
   "emergencyRelationship", "emergencyMobile"}

\* validateForm of RegistrationController: the required fields the document has
validateForm ==
  \A i \in DOMAIN dom[MembershipForm] :
    LET e == dom[MembershipForm][i] IN
    e.id \in RequiredFields => Trim(e.value) # ""

\* form.reset(): text-like controls go back to their default value (empty),
\* radios and checkboxes keep their value attribute and lose their checked state
ResetForm(els) ==
  [i \in DOMAIN els |->
    IF els[i].type \in {"checkbox", "radio"} THEN [els[i] EXCEPT !.checked = FALSE]
    ELSE [els[i] EXCEPT !.value = "", !.checked = FALSE]]

\* ------------------------------------------------------------ initial states
BlankMembership == <<Element("firstName", "firstName", "text", ""),
                     Element("aadharFront", "aadharFront", "file", "")>>
BlankUpdate == <<Element("updateEmail", "updateEmail", "email", "")>>

BlankForm(f) == IF f = MembershipForm THEN BlankMembership ELSE BlankUpdate

Range(seq) == {seq[i] : i \in DOMAIN seq}

Layouts == {<<MembershipForm>>}
\* ------------------------------------------------------------ OTP
otpLength == 6
resendInterval == 30
maxAttempts == 3
OTP_API_DELAY == 1
otpExpiry == 300

\* what generateOtp can return, and what a user can type
OtpCodes == {"111111", "222222"}
OtpInputs == OtpCodes \cup {"", "12"}
Identifiers == {"mobile", "email"}
MobileNumbers == {"9876543210"}
Recipients == MobileNumbers \cup {""}

\* the component after its constructor ran with the default options and the
\* given recipient (lastSent 0: null; timer FALSE: null; apiDue 0: no call pending)
OtpVerification(recipient) ==
  [type |-> "mobile", recipient |-> recipient,
   attempts |-> 0, lastSent |-> 0, verified |-> FALSE, timer |-> FALSE, otp |-> "",
   input |-> "", inputDisabled |-> FALSE, sendDisabled |-> FALSE, verifyDisabled |-> FALSE,
   status |-> "", statusClass |-> "", timerHidden |-> TRUE, seconds |-> 0,
   apiDue |-> 0,
   resent |-> FALSE]  \* history: an OTP was sent after attempts reached maxAttempts

showStatus(c, message, type) == [c EXCEPT !.status = message, !.statusClass = type]

clearTimer(c) == [c EXCEPT !.timer = FALSE, !.timerHidden = TRUE]

startResendTimer(c) ==
  [clearTimer(c) EXCEPT !.seconds = resendInterval, !.timerHidden = FALSE, !.timer = TRUE]

disableVerification(c) == [c EXCEPT !.inputDisabled = TRUE, !.verifyDisabled = TRUE]

validateRecipient(c) ==
  /\ c.recipient # ""
  /\ c.type = "mobile" => c.recipient \in MobileNumbers

MaxAttemptsMessage == "Maximum attempts reached. Please request a new OTP."

InvalidOtpMessage(remaining) ==
  CASE remaining = 2 -> "Invalid OTP. 2 attempts remaining."
    [] remaining = 1 -> "Invalid OTP. 1 attempt remaining."
    [] OTHER -> "Invalid OTP. 0 attempts remaining."

\* sendOtp up to its await: the component once generateOtp returned otp
OtpVerification_sendOtp(c, otp) ==
  IF c.lastSent # 0 /\ DateNow - c.lastSent < resendInterval
    THEN showStatus(c, "Please wait before requesting another OTP", "error")
    ELSE IF ~validateRecipient(c)
      THEN showStatus(c, "Invalid mobile", "error")
      ELSE [showStatus(c, "Sending OTP...", "info") EXCEPT
              !.sendDisabled = TRUE, !.otp = otp, !.lastSent = DateNow,
              !.apiDue = now + OTP_API_DELAY]

\* sendOtp after its await: callOtpApi resolved with success
OtpVerification_sent(c) ==
  [startResendTimer(showStatus(c, "OTP sent to mobile", "success")) EXCEPT
     !.sendDisabled = FALSE, !.apiDue = 0, !.resent = (c.attempts >= maxAttempts)]

OtpVerification_verifyOtp(c) ==
  LET enteredOtp == Trim(c.input) IN
  IF enteredOtp = "" \/ Len(enteredOtp) # otpLength
    THEN showStatus(c, "Please enter a 6-digit OTP", "error")
    ELSE IF c.attempts >= maxAttempts
      THEN disableVerification(showStatus(c, MaxAttemptsMessage, "error"))
      ELSE IF enteredOtp = c.otp
        THEN [clearTimer(showStatus([c EXCEPT !.verified = TRUE],
                                    "Verified successfully", "success"))
                EXCEPT !.verifyDisabled = FALSE]
        ELSE [showStatus([c EXCEPT !.attempts = @ + 1],
                         InvalidOtpMessage(maxAttempts - (c.attempts + 1)), "error")
                EXCEPT !.verifyDisabled = FALSE]

\* one firing of the interval startResendTimer set
ResendTimerTick(c) ==
  IF ~c.timer THEN c
  ELSE IF c.seconds - 1 <= 0
    THEN clearTimer([c EXCEPT !.seconds = @ - 1])
    ELSE [c EXCEPT !.seconds = @ - 1]

\* Map operations of OtpService
NoOtps == [i \in {} |-> 0]
MapSet(m, key, v) == [i \in DOMAIN m \cup {key} |-> IF i = key THEN v ELSE m[i]]
MapDelete(m, key) == [i \in DOMAIN m \ {key} |-> m[i]]

cleanupOtps(m) ==
  LET live == {i \in DOMAIN m : ~(DateNow > m[i].expiry)} IN [i \in live |-> m[i]]

storeOtp(m, identifier, otp) ==
  cleanupOtps(MapSet(m, identifier, [otp |-> otp, expiry |-> DateNow + otpExpiry]))

\* a verifyOtp that forgets to consume the entry
OtpService_verifyOtpKeep(m, identifier, otp) ==
  IF identifier \notin DOMAIN m
    THEN [map |-> m, result |-> FALSE]
    ELSE [map |-> m,
          result |-> m[identifier].otp = otp /\ DateNow <= m[identifier].expiry]

\* the map and the return value of verifyOtp
OtpService_verifyOtp(m, identifier, otp) ==
  IF identifier \notin DOMAIN m
    THEN [map |-> m, result |-> FALSE]
    ELSE [map |-> MapDelete(m, identifier),
          result |-> m[identifier].otp = otp /\ DateNow <= m[identifier].expiry]

NoCall == [op |-> "", identifier |-> "", otp |-> "", result |-> FALSE, spent |-> ""]

\* no OTP component activity and an empty OtpService
OtpIdle ==
  /\ otpVerification = OtpVerification("9876543210")
  /\ otpMap = NoOtps
  /\ otpSpent = [i \in Identifiers |-> ""]
  /\ otpCall = NoCall

InitService ==
  /\ now = 0
  /\ page = "loading"
  /\ labels = [s \in FileSlots |-> ""]
  /\ indicator = ""
  /\ errorMsg = ""
  /\ enabled = TRUE
  /\ retryCount = 0
  /\ saveTimer = 0
  /\ currentFormId = Null
  /\ csrfToken = Null
  /\ lastSyncTime = 0
  /\ timers = {}
  /\ pushes = {}
  /\ tokenFetches = fetch({}, [cont |-> "init", formData |-> <<>>])
  /\ uploads = {}
  /\ submitting = FALSE
  /\ submitted = FALSE
  /\ lastActivity = 0
  /\ rearmed = FALSE
  /\ events = 0
  /\ tokenFailures = 0
  /\ quotaExceeded = FALSE
  /\ accepted = 0
  /\ OtpIdle

Init ==
  /\ InitService
  /\ formOrder \in Layouts
  /\ dom = [f \in Range(formOrder) |-> BlankForm(f)]
  /\ storage = NoItem

\* ------------------------------------------------------------ actions

\* the answer to a getCsrfToken request (loadCsrfToken after its await, and the
\* rest of syncToServer when it was syncToServer that asked)
TokenResponse(r, ok) ==
  /\ page # "unloaded"
  /\ r \in tokenFetches
  /\ tokenFetches' = tokenFetches \ {r}
  /\ csrfToken' = IF ok THEN Token ELSE csrfToken
  /\ tokenFailures' = IF ok THEN 0
                      ELSE IF tokenFailures < MaxTokenFailures THEN tokenFailures + 1
                      ELSE tokenFailures
  /\ IF r.data.cont = "sync" /\ csrfToken' # Null
       THEN /\ Cardinality(pushes) < MaxInFlight
            /\ pushes' = fetch(pushes, r.data.formData)
       ELSE pushes' = pushes
  /\ UNCHANGED <<now, page, domVars, indicator, errorMsg, storage, enabled, retryCount,
                 saveTimer, currentFormId, lastSyncTime, timers, uploads, submitting,
                 submitted, histVars, events, quotaExceeded, accepted, otpVars>>

\* DOMContentLoaded: setupFormListeners, then restoreSavedData
DOMContentLoaded ==
  /\ page = "loading"
  /\ page' = "ready"
  /\ currentFormId' = IF formOrder = <<>> THEN currentFormId
                      ELSE formOrder[Len(formOrder)]
  /\ LET r == restoreSavedData(dom, labels, currentFormId') IN
       /\ dom' = r.dom
       /\ labels' = r.labels
       /\ indicator' = IF r.applied THEN "Restored previous session" ELSE indicator
  /\ UNCHANGED <<envVars, now, formOrder, errorMsg, storage, enabled, retryCount, saveTimer,
                 csrfToken, lastSyncTime, timers, netVars, histVars, events>>

\* the part of an input or change event that is handleFormChange
FormChanged ==
  LET h == handleFormChange IN
  /\ Cardinality(h.timers) <= MaxTimers
  /\ timers' = h.timers
  /\ saveTimer' = h.saveTimer
  /\ lastActivity' = h.lastActivity
  /\ rearmed' = h.rearmed

\* the user types into a text-like element: its input event runs handleFormChange
UserInput(f, i, v) ==
  /\ page = "ready"
  /\ f \in DOMAIN dom
  /\ i \in DOMAIN dom[f]
  /\ dom[f][i].type \notin {"file", "radio", "checkbox"}
  /\ dom[f][i].value # v
  /\ dom' = [dom EXCEPT ![f][i].value = v]
  /\ FormChanged
  /\ events' = events + 1
  /\ UNCHANGED <<envVars, now, page, formOrder, labels, indicator, errorMsg, storage, enabled,
                 retryCount, currentFormId, csrfToken, lastSyncTime, netVars>>

\* the user picks a file (or empties the input): the change event runs
\* handleFormChange and then handleFileUpload up to its await
UserSelectFile(f, i, picked) ==
  /\ page = "ready"
  /\ f \in DOMAIN dom
  /\ i \in DOMAIN dom[f]
  /\ dom[f][i].type = "file"
  /\ picked \/ dom[f][i].value # ""
  /\ dom' = [dom EXCEPT ![f][i].value = IF picked THEN "file.png" ELSE ""]
  /\ FormChanged
  /\ IF enabled /\ picked
       THEN /\ Cardinality(uploads) < MaxUploads
            /\ labels' = [s \in DOMAIN labels |->
                           IF s = dom[f][i].id THEN "Uploading..." ELSE labels[s]]
            /\ uploads' = fetch(uploads, [input |-> dom[f][i].id])
       ELSE UNCHANGED <<labels, uploads>>
  /\ events' = events + 1
  /\ UNCHANGED <<envVars, now, page, formOrder, indicator, errorMsg, storage, enabled, retryCount,
                 currentFormId, csrfToken, lastSyncTime, pushes, tokenFetches,
                 submitting, submitted>>

\* the answer to an uploadFile request: the rest of handleFileUpload
UploadResponse(u, fileUrl) ==
  /\ page # "unloaded"
  /\ u \in uploads
  /\ uploads' = uploads \ {u}
  /\ IF fileUrl = UploadFailed
       THEN /\ labels' = [s \in DOMAIN labels |->
                           IF s = u.data.input THEN "Upload failed - try again"
                           ELSE labels[s]]
            /\ UNCHANGED <<storage, indicator>>
       ELSE /\ storage' = saveToLocalStorage(ObjSet(getFormData, u.data.input, fileUrl))
            /\ indicator' = showAutoSaveIndicator
            /\ labels' = [s \in DOMAIN labels |->
                           IF s = u.data.input THEN "file.png" ELSE labels[s]]
  /\ UNCHANGED <<envVars, now, page, formOrder, dom, errorMsg, svcVars, timers, pushes,
                 tokenFetches, submitting, submitted, histVars, events>>

\* a timer comes due: the debounce timer runs saveFormData(), a retry timer
\* runs syncToServer(formData)
TimerFire(t) ==
  /\ page # "unloaded"
  /\ t \in timers
  /\ t.due <= now
  /\ timers' = timers \ {t}
  /\ IF t.kind = "debounce"
       THEN LET s == saveFormData(FALSE) IN
            /\ storage' = s.storage
            /\ indicator' = s.indicator
            /\ pushes' = s.pushes
            /\ tokenFetches' = s.tokenFetches
            /\ rearmed' = FALSE
            /\ lastActivity' = 0
       ELSE LET n == syncToServer(t.data, pushes, tokenFetches) IN
            /\ pushes' = n.pushes
            /\ tokenFetches' = n.tokenFetches
            /\ UNCHANGED <<storage, indicator, rearmed, lastActivity>>
  /\ Cardinality(pushes') <= MaxInFlight
  /\ Cardinality(tokenFetches') <= MaxInFlight
  /\ UNCHANGED <<envVars, now, page, domVars, errorMsg, svcVars, uploads, submitting, submitted,
                 events>>

\* the endpoint's record after it accepted snapshot o: the later capture time
Latest(seen, o) ==
  IF ObjHas(o, "_timestamp") /\ ObjGet(o, "_timestamp") > seen
    THEN ObjGet(o, "_timestamp") ELSE seen

\* an answer handler that keeps retryCount on success
PushResponseKeepCount(r, ok) ==
  /\ page # "unloaded"
  /\ r \in pushes
  /\ pushes' = pushes \ {r}
  /\ IF ok
       THEN /\ lastSyncTime' = DateNow
            /\ accepted' = Latest(accepted, r.data)
            /\ UNCHANGED <<timers, errorMsg, retryCount>>
       ELSE /\ retryCount < MaxRetryCount
            /\ retryCount' = retryCount + 1
            /\ IF retryCount' < MAX_RETRIES
                 THEN /\ Cardinality(timers) < MaxTimers
                      /\ timers' = setTimeout(timers, {saveTimer}, "retry", RETRY_DELAY, r.data)
                      /\ UNCHANGED errorMsg
                 ELSE /\ errorMsg' = OfflineNotice
                      /\ UNCHANGED timers
            /\ UNCHANGED <<lastSyncTime, accepted>>
  /\ UNCHANGED <<tokenFailures, quotaExceeded, otpVars, now, page, domVars, indicator, storage,
                 enabled, saveTimer,
                 currentFormId, csrfToken, tokenFetches, uploads, submitting, submitted,
                 histVars, events>>

\* the answer to an autoSaveForm request: the rest of syncToServer
PushResponse(r, ok) ==
  /\ page # "unloaded"
  /\ r \in pushes
  /\ pushes' = pushes \ {r}
  /\ IF ok
       THEN /\ lastSyncTime' = DateNow
            /\ retryCount' = 0
            /\ accepted' = Latest(accepted, r.data)
            /\ UNCHANGED <<timers, errorMsg>>
       ELSE /\ retryCount < MaxRetryCount
            /\ retryCount' = retryCount + 1
            /\ IF retryCount' < MAX_RETRIES
                 THEN /\ Cardinality(timers) < MaxTimers
                      /\ timers' = setTimeout(timers, {saveTimer}, "retry", RETRY_DELAY, r.data)
                      /\ UNCHANGED errorMsg
                 ELSE /\ errorMsg' = OfflineNotice
                      /\ UNCHANGED timers
            /\ UNCHANGED <<lastSyncTime, accepted>>
  /\ UNCHANGED <<tokenFailures, quotaExceeded, otpVars, now, page, domVars, indicator, storage,
                 enabled, saveTimer,
                 currentFormId, csrfToken, tokenFetches, uploads, submitting, submitted,
                 histVars, events>>

\* the page goes away: the document, the service instance, its timers and the
\* continuations of its requests go with it; localStorage stays
PageGone ==
  /\ page' = "unloaded"
  /\ now' = 0
  /\ dom' = [f \in DOMAIN dom |-> ResetForm(dom[f])]
  /\ labels' = [s \in DOMAIN labels |-> ""]
  /\ indicator' = ""
  /\ errorMsg' = ""
  /\ enabled' = TRUE
  /\ retryCount' = 0
  /\ saveTimer' = 0
  /\ currentFormId' = Null
  /\ csrfToken' = Null
  /\ lastSyncTime' = 0
  /\ timers' = {}
  /\ pushes' = {}
  /\ tokenFetches' = {}
  /\ uploads' = {}
  /\ submitting' = FALSE
  /\ submitted' = FALSE
  /\ lastActivity' = 0
  /\ rearmed' = FALSE
  /\ tokenFailures' = 0
  /\ accepted' = 0
  /\ UNCHANGED <<formOrder, quotaExceeded, otpVars>>

\* the beforeunload handler; stay: the user answers the confirm-leave prompt by
\* staying on the page
BeforeUnload(stay) ==
  /\ page # "unloaded"
  /\ events' = events + 1
  /\ IF hasUnsavedChanges
       THEN LET s == saveFormData(TRUE) IN
            /\ storage' = s.storage
            /\ IF stay
                 THEN /\ Cardinality(s.pushes) <= MaxInFlight
                      /\ Cardinality(s.tokenFetches) <= MaxInFlight
                      /\ indicator' = s.indicator
                      /\ pushes' = s.pushes
                      /\ tokenFetches' = s.tokenFetches
                      /\ UNCHANGED <<envVars, now, page, domVars, errorMsg, svcVars, timers,
                                     uploads, submitting, submitted, histVars>>
                 ELSE PageGone
       ELSE /\ ~stay
            /\ PageGone
            /\ UNCHANGED storage

\* setEnabled(e)
SetEnabled(e) ==
  /\ page # "unloaded"
  /\ e # enabled \/ (~e /\ storage.has)
  /\ enabled' = e
  /\ storage' = IF e THEN storage ELSE NoItem
  /\ events' = events + 1
  /\ UNCHANGED <<envVars, now, page, domVars, indicator, errorMsg, retryCount, saveTimer,
                 currentFormId, csrfToken, lastSyncTime, timers, netVars, histVars>>

\* RegistrationController.handleFormSubmission up to its await
Submit ==
  /\ page = "ready"
  /\ MembershipForm \in DOMAIN dom
  /\ ~submitting
  /\ validateForm
  /\ submitting' = TRUE
  /\ events' = events + 1
  /\ UNCHANGED <<envVars, now, page, domVars, indicator, errorMsg, storage, svcVars, timers,
                 pushes, tokenFetches, uploads, submitted, histVars>>

\* the answer to submitApplication: on success showSuccessModal resets the form
SubmitResponse(ok) ==
  /\ page # "unloaded"
  /\ submitting
  /\ submitting' = FALSE
  /\ IF ok
       THEN /\ dom' = [dom EXCEPT ![MembershipForm] = ResetForm(dom[MembershipForm])]
            /\ submitted' = TRUE
       ELSE UNCHANGED <<dom, submitted>>
  /\ UNCHANGED <<envVars, now, page, formOrder, labels, indicator, errorMsg, storage, svcVars,
                 timers, pushes, tokenFetches, uploads, histVars, events>>

\* one second passes; a timer that is due runs first
Tick ==
  /\ page # "unloaded"
  /\ \A t \in timers : t.due > now
  /\ now' = now + 1
  /\ UNCHANGED <<envVars, page, domVars, indicator, errorMsg, storage, svcVars, timers, netVars,
                 histVars, events>>

\* ------------------------------------------------------------ specifications
Values == {"", "a"}
FileUrls == {UploadFailed, Undefined, "", "url1"}

Budget == events < MaxEvents

Next ==
  \/ \E r \in tokenFetches, ok \in BOOLEAN : TokenResponse(r, ok)
  \/ DOMContentLoaded
  \/ Budget /\ \E f \in DOMAIN dom : \E i \in DOMAIN dom[f], v \in Values : UserInput(f, i, v)
  \/ Budget /\ \E f \in DOMAIN dom : \E i \in DOMAIN dom[f], picked \in BOOLEAN :
                 UserSelectFile(f, i, picked)
  \/ Budget /\ \E stay \in BOOLEAN : BeforeUnload(stay)
  \/ Budget /\ \E e \in BOOLEAN : SetEnabled(e)
  \/ Budget /\ Submit
  \/ \E u \in uploads, fileUrl \in FileUrls : UploadResponse(u, fileUrl)
  \/ \E t \in timers : TimerFire(t)
  \/ \E r \in pushes, ok \in BOOLEAN : PushResponse(r, ok)
  \/ \E ok \in BOOLEAN : SubmitResponse(ok)
  \/ now < MaxTime /\ Tick

Spec == Init /\ [][Next]_vars

\* --- the remote push and its retries, over a longer time and without uploads,
\* --- opt-out and submission
SyncBudget == events < MaxSyncEvents

SyncNext ==
  \/ \E r \in tokenFetches, ok \in BOOLEAN : TokenResponse(r, ok)
  \/ DOMContentLoaded
  \/ SyncBudget /\ \E f \in DOMAIN dom : \E i \in DOMAIN dom[f], v \in Values : UserInput(f, i, v)
  \/ SyncBudget /\ \E stay \in BOOLEAN : BeforeUnload(stay)
  \/ \E t \in timers : TimerFire(t)
  \/ \E r \in pushes, ok \in BOOLEAN : PushResponse(r, ok)
  \/ now < MaxSyncTime /\ Tick

SpecSync == Init /\ [][SyncNext]_vars

\* --- page load: the document and the stored item are what an earlier session,
\* --- the browser or the server left
RestoreMembership(firstName, primaryMobile) ==
  <<Element("firstName", "firstName", "text", firstName),
    Element("primaryMobile", "primaryMobile", "tel", primaryMobile),
    Element("aadharFront", "aadharFront", "file", "")>>

RestoreUpdate(updateEmail) == <<Element("updateEmail", "updateEmail", "email", updateEmail)>>

RestoreLayouts ==
  {<<MembershipForm>>, <<UpdateForm>>, <<MembershipForm, UpdateForm>>,
   <<UpdateForm, MembershipForm>>}

\* what getFormData returned in the earlier session, for form f with elements els
Snapshot(els, f) == ObjSet(ObjSet(CollectFields(els, <<>>), "_timestamp", SAVE_INTERVAL), "_formId", f)

StoredSnapshots ==
  {Snapshot(RestoreMembership(n, m), MembershipForm) : n \in {"", "b"}, m \in {"", "8"}}
  \cup {Snapshot(RestoreUpdate(e), UpdateForm) : e \in {"", "b"}}

StoredItems ==
  {NoItem} \cup {saveToLocalStorage(o) : o \in StoredSnapshots}
           \cup {saveToLocalStorage(ObjSet(o, "aadharFront", url)) :
                   o \in StoredSnapshots, url \in {"", "url1"}}

InitRestore ==
  /\ InitService
  /\ formOrder \in RestoreLayouts
  /\ \E n \in {"", "a"}, m \in {"", " ", "9"}, e \in {"", "a"} :
       dom = [f \in Range(formOrder) |->
               IF f = MembershipForm THEN RestoreMembership(n, m) ELSE RestoreUpdate(e)]
  /\ storage \in StoredItems

RestoreNext ==
  \/ \E r \in tokenFetches, ok \in BOOLEAN : TokenResponse(r, ok)
  \/ DOMContentLoaded

SpecRestore == InitRestore /\ [][RestoreNext]_vars

\* --- extraction and restore over a form with a radio group, a checkbox and a
\* --- select: the user has filled the form, the debounce timer of the last
\* --- change is due; later the page is left and loaded again
Checked(e, c) == [e EXCEPT !.checked = c]

\* gender: the value of the checked radio of the group, "" for none
FilledForm(firstName, gender, declaration, caste) ==
  <<Element("firstName", "firstName", "text", firstName),
    Checked(Element("genderMale", "gender", "radio", "male"), gender = "male"),
    Checked(Element("genderFemale", "gender", "radio", "female"), gender = "female"),
    Checked(Element("declaration", "declaration", "checkbox", "on"), declaration),
    Element("caste", "caste", "select-one", caste)>>

InitRoundTrip ==
  /\ now = DEBOUNCE_DELAY
  /\ page = "ready"
  /\ formOrder = <<MembershipForm>>
  /\ \E n \in {"", "a"}, g \in {"", "male", "female"}, d \in BOOLEAN, c \in {"", "x"} :
       dom = [f \in {MembershipForm} |-> FilledForm(n, g, d, c)]
  /\ labels = [s \in FileSlots |-> ""]
  /\ indicator = ""
  /\ errorMsg = ""
  /\ storage = NoItem
  /\ enabled = TRUE
  /\ retryCount = 0
  /\ saveTimer = 1
  /\ currentFormId = MembershipForm
  /\ csrfToken = Null
  /\ lastSyncTime = 0
  /\ timers = {[id |-> 1, kind |-> "debounce", due |-> DEBOUNCE_DELAY, data |-> <<>>]}
  /\ pushes = {}
  /\ tokenFetches = fetch({}, [cont |-> "init", formData |-> <<>>])
  /\ uploads = {}
  /\ submitting = FALSE
  /\ submitted = FALSE
  /\ lastActivity = 0
  /\ rearmed = FALSE
  /\ events = 0
  /\ tokenFailures = 0
  /\ quotaExceeded = FALSE
  /\ accepted = 0
  /\ OtpIdle

\* the page is loaded again: a new document and a new service instance, whose
\* constructor and initialize() run before the document is parsed
PageLoad ==
  /\ page = "unloaded"
  /\ page' = "loading"
  /\ tokenFetches' = fetch({}, [cont |-> "init", formData |-> <<>>])
  /\ UNCHANGED <<now, domVars, indicator, errorMsg, storage, svcVars, timers, pushes,
                 uploads, submitting, submitted, histVars, events, envVars>>

RoundTripNext ==
  \/ \E r \in tokenFetches, ok \in BOOLEAN : TokenResponse(r, ok)
  \/ \E t \in timers : TimerFire(t)
  \/ \E r \in pushes, ok \in BOOLEAN : PushResponse(r, ok)
  \/ events < MaxReloads /\ BeforeUnload(FALSE)
  \/ PageLoad
  \/ DOMContentLoaded
  \/ now < DEBOUNCE_DELAY + RETRY_DELAY /\ Tick

SpecRoundTrip == InitRoundTrip /\ [][RoundTripNext]_vars

\* --- half a minute after the first debounced save: its push was answered with
\* --- success at once ("synced"), or it and its two retries failed ("offline")
InitLater ==
  /\ now \in {SAVE_INTERVAL - 1, SAVE_INTERVAL}
  /\ page = "ready"
  /\ formOrder = <<MembershipForm>>
  /\ dom = [f \in {MembershipForm} |->
             <<Element("firstName", "firstName", "text", "a"),
               Element("aadharFront", "aadharFront", "file", "")>>]
  /\ labels = [s \in FileSlots |-> ""]
  /\ indicator = "Changes saved locally"
  /\ storage = [has |-> TRUE, valid |-> TRUE,
                text |-> ObjSet(ObjSet(CollectFields(dom[MembershipForm], <<>>),
                                       "_timestamp", SAVE_INTERVAL + 1 + DEBOUNCE_DELAY),
                                "_formId", MembershipForm)]
  /\ enabled = TRUE
  /\ \E outcome \in {"synced", "offline"} :
       /\ retryCount = IF outcome = "synced" THEN 0 ELSE MAX_RETRIES
       /\ errorMsg = IF outcome = "synced" THEN "" ELSE OfflineNotice
       /\ lastSyncTime = IF outcome = "synced" THEN SAVE_INTERVAL + 1 + DEBOUNCE_DELAY ELSE 0
  /\ saveTimer = 1
  /\ currentFormId = MembershipForm
  /\ csrfToken = Token
  /\ timers = {}
  /\ pushes = {}
  /\ tokenFetches = {}
  /\ uploads = {}
  /\ submitting = FALSE
  /\ submitted = FALSE
  /\ lastActivity = 0
  /\ rearmed = FALSE
  /\ events = 0
  /\ tokenFailures = 0
  /\ quotaExceeded = FALSE
  /\ accepted = 0
  /\ OtpIdle

LaterNext ==
  \/ SyncBudget /\ \E f \in DOMAIN dom : \E i \in DOMAIN dom[f], v \in Values : UserInput(f, i, v)
  \/ SyncBudget /\ BeforeUnload(TRUE)
  \/ \E t \in timers : TimerFire(t)
  \/ \E r \in pushes, ok \in BOOLEAN : PushResponse(r, ok)
  \/ now < MaxLaterTime /\ Tick

SpecLater == InitLater /\ [][LaterNext]_vars

\* --- page load over a stored string that JSON.parse rejects (a snapshot cut
\* --- off after its first pair)
CorruptItem ==
  [has |-> TRUE, valid |-> FALSE, text |-> <<[k |-> "firstName", v |-> "b"]>>]

InitCorrupt ==
  /\ InitService
  /\ formOrder \in Layouts
  /\ dom = [f \in Range(formOrder) |-> BlankForm(f)]
  /\ storage = CorruptItem

CorruptNext ==
  \/ \E r \in tokenFetches, ok \in BOOLEAN : TokenResponse(r, ok)
  \/ DOMContentLoaded
  \/ SyncBudget /\ \E f \in DOMAIN dom : \E i \in DOMAIN dom[f], v \in Values : UserInput(f, i, v)
  \/ \E t \in timers : TimerFire(t)
  \/ now < MaxTime /\ Tick

SpecCorrupt == InitCorrupt /\ [][CorruptNext]_vars

\* --- the origin's storage quota runs out (other pages of the origin write to
\* --- localStorage too); from then on setItem throws
QuotaReached ==
  /\ page # "unloaded"
  /\ ~quotaExceeded
  /\ quotaExceeded' = TRUE
  /\ UNCHANGED <<now, page, domVars, indicator, errorMsg, storage, svcVars, timers, netVars,
                 histVars, events, tokenFailures, accepted, otpVars>>

QuotaNext ==
  \/ QuotaReached
  \/ \E r \in tokenFetches, ok \in BOOLEAN : TokenResponse(r, ok)
  \/ DOMContentLoaded
  \/ SyncBudget /\ \E f \in DOMAIN dom : \E i \in DOMAIN dom[f], v \in Values : UserInput(f, i, v)
  \/ SyncBudget /\ \E f \in DOMAIN dom : \E i \in DOMAIN dom[f], picked \in BOOLEAN :
                     UserSelectFile(f, i, picked)
  \/ SyncBudget /\ \E stay \in BOOLEAN : BeforeUnload(stay)
  \/ \E u \in uploads, fileUrl \in FileUrls : UploadResponse(u, fileUrl)
  \/ \E t \in timers : TimerFire(t)
  \/ \E r \in pushes, ok \in BOOLEAN : PushResponse(r, ok)
  \/ now < MaxTime /\ Tick

SpecQuota == Init /\ [][QuotaNext]_vars

\* --- extraction over forms of up to MaxFormLen elements, among them a file
\* --- input, an element with neither name nor id and one with an id only; the
\* --- debounce timer of the last change is due
FormElements ==
  {Element("firstName", "firstName", "text", "a"),
   Element("", "", "text", "x"),
   Element("aadharFront", "aadharFront", "file", "file.png"),
   Element("note", "", "textarea", "n")}

Forms ==
  UNION {{els \in [1..n -> FormElements] : \A i, j \in 1..n : els[i] = els[j] => i = j} :
           n \in 0..MaxFormLen}

InitExtract ==
  /\ now = DEBOUNCE_DELAY
  /\ page = "ready"
  /\ formOrder = <<MembershipForm>>
  /\ \E els \in Forms : dom = [f \in {MembershipForm} |-> els]
  /\ labels = [s \in FileSlots |-> ""]
  /\ indicator = ""
  /\ errorMsg = ""
  /\ storage = NoItem
  /\ enabled = TRUE
  /\ retryCount = 0
  /\ saveTimer = 1
  /\ currentFormId = MembershipForm
  /\ csrfToken = Null
  /\ lastSyncTime = 0
  /\ timers = {[id |-> 1, kind |-> "debounce", due |-> DEBOUNCE_DELAY, data |-> <<>>]}
  /\ pushes = {}
  /\ tokenFetches = fetch({}, [cont |-> "init", formData |-> <<>>])
  /\ uploads = {}
  /\ submitting = FALSE
  /\ submitted = FALSE
  /\ lastActivity = 0
  /\ rearmed = FALSE
  /\ events = 0
  /\ tokenFailures = 0
  /\ quotaExceeded = FALSE
  /\ accepted = 0
  /\ OtpIdle

SpecExtract == InitExtract /\ [][RoundTripNext]_vars

\* --- the remote push under the scheduling the browser guarantees: time passes
\* --- and a timer that is due fires; nothing makes the endpoint answer
SpecSyncFair ==
  /\ Init
  /\ [][SyncNext]_vars
  /\ WF_vars(now < MaxSyncTime /\ Tick)
  /\ WF_vars(\E t \in timers : TimerFire(t))

\* ------------------------------------------------------------ claims
DebounceTimers == {t \in timers : t.kind = "debounce"}

\* the values getFormData reads from the elements of the tracked form
CurrentFields ==
  IF currentFormId \in DOMAIN dom THEN CollectFields(dom[currentFormId], <<>>) ELSE <<>>

\* the field values of a stored snapshot: its pairs without the metadata and
\* the file references
FieldsOf(o) == SelectSeq(o, LAMBDA p : p.k \notin {"_timestamp", "_formId"} \cup FileSlots)

\* a text, email or tel field of form f holds a value that is not blank
FilledByUser(f) ==
  /\ f \in DOMAIN dom
  /\ \E i \in DOMAIN dom[f] :
       dom[f][i].type \in {"text", "email", "tel"} /\ Trim(dom[f][i].value) # ""

\* C1: when a text field of the tracked form already holds a value at the time
\* restoreSavedData runs, restoreSavedData changes no field of the document.
ConflictAvoidance ==
  [][(DOMContentLoaded /\ FilledByUser(currentFormId')) => dom' = dom]_vars

\* C2: a burst of handleFormChange calls leaves exactly one debounce timer, the
\* one saveTimer names, due 2 seconds after the last call of the burst and never
\* overdue: the save runs once, 2 seconds after the last call.
DebounceCoalescing ==
  /\ Cardinality(DebounceTimers) <= 1
  /\ \A t \in DebounceTimers :
       /\ t.id = saveTimer
       /\ t.due = lastActivity + DEBOUNCE_DELAY
       /\ now <= t.due

\* C2 witness: a burst of at least two calls, no save yet, the timer due now
DebounceBurstDue ==
  /\ rearmed
  /\ ~storage.has
  /\ \E t \in DebounceTimers : t.due = now /\ now = lastActivity + DEBOUNCE_DELAY

\* C3: at most one autoSaveForm request is outstanding.
AtMostOnePushInFlight == Cardinality(pushes) <= 1

\* C4: retryCount never exceeds MAX_RETRIES.
RetryCeiling == retryCount <= MAX_RETRIES

\* C5: after the backend answered submitApplication with success, storage holds
\* no snapshot and auto-save is disabled.
TerminalClear == submitted => (~storage.has /\ ~enabled)

\* C6: while enabled is false, storage holds no snapshot.
OptOutInvariant == ~enabled => ~storage.has

\* C7: once the instance is disabled or the form is submitted, no step of the
\* same instance leaves it in a state where field activity schedules a save.
TerminalStates ==
  [][((~enabled \/ submitted) /\ page' # "unloaded") => ~enabled']_vars

\* C8: when the beforeunload handler runs with field activity not yet saved (a
\* debounce timer pending) and auto-save enabled, storage afterwards holds a
\* snapshot of the current field values.
UnloadFlush ==
  [][((\E stay \in BOOLEAN : BeforeUnload(stay)) /\ enabled /\ DebounceTimers # {})
       => (storage'.has /\ FieldsOf(storage'.text) = CurrentFields)]_vars

\* C9: after the forced save of the beforeunload handler no debounce timer
\* remains scheduled.
NoDoubleSaveOnFlush ==
  [][(BeforeUnload(TRUE) /\ enabled /\ hasUnsavedChanges) => DebounceTimers' = {}]_vars

\* C10: restoreSavedData changes no field when the stored snapshot names another
\* form than the tracked one.
FormIdentityCheck ==
  [][(DOMContentLoaded /\ storage.has /\ ObjGet(storage.text, "_formId") # currentFormId')
       => dom' = dom]_vars

\* the members of the radio or checkbox group g of the tracked form
GroupMembers(g) ==
  IF currentFormId \notin DOMAIN dom THEN {}
  ELSE {i \in DOMAIN dom[currentFormId] :
          /\ dom[currentFormId][i].type \in {"radio", "checkbox"}
          /\ KeyOf(dom[currentFormId][i]) = g}

Groups ==
  IF currentFormId \notin DOMAIN dom THEN {}
  ELSE {KeyOf(dom[currentFormId][i]) :
          i \in {j \in DOMAIN dom[currentFormId] :
                   dom[currentFormId][j].type \in {"radio", "checkbox"}}}

\* C11: a snapshot extracted from a filled form and saved, restored into the
\* empty form of a freshly loaded page, makes a new extraction yield the field
\* map that was saved (metadata aside).
RoundTrip ==
  [][(DOMContentLoaded /\ storage.has /\ storage.valid
        /\ ObjGet(storage.text, "_formId") = currentFormId')
       => FieldsOf(JSONstringify(CurrentFields')) = FieldsOf(storage.text)]_vars

\* C11 witness: the restore has run on the new page and brought back a text
\* value, a checked radio and the checked checkbox
RoundTripRestored ==
  /\ page = "ready"
  /\ indicator = "Restored previous session"
  /\ \E i, j, k \in DOMAIN dom[MembershipForm] :
       /\ dom[MembershipForm][i].type = "radio" /\ dom[MembershipForm][i].checked
       /\ dom[MembershipForm][j].type = "checkbox" /\ dom[MembershipForm][j].checked
       /\ dom[MembershipForm][k].type = "text" /\ dom[MembershipForm][k].value = "a"

\* C12: for every radio or checkbox group of the tracked form getFormData holds,
\* under the group's name, the value of the checked member, and "" only when
\* no member is checked.
GroupCapture ==
  \A g \in Groups :
    IF \E i \in GroupMembers(g) : dom[currentFormId][i].checked
      THEN \E i \in GroupMembers(g) :
             /\ dom[currentFormId][i].checked
             /\ ObjGet(getFormData, g) = dom[currentFormId][i].value
      ELSE ObjGet(getFormData, g) = ""

\* the file input of slot s still holds the file the user picked
FilePicked(s) ==
  /\ currentFormId \in DOMAIN dom
  /\ \E i \in DOMAIN dom[currentFormId] :
       /\ dom[currentFormId][i].type = "file"
       /\ dom[currentFormId][i].id = s
       /\ dom[currentFormId][i].value # ""

\* C13: a file reference handleFileUpload stored in the snapshot is still in
\* storage after every debounced or forced save, as long as the input holds the
\* file.
FileRefKept ==
  [][(((\E t \in timers : TimerFire(t)) \/ (\E stay \in BOOLEAN : BeforeUnload(stay)))
        /\ storage.has /\ storage.valid)
       => \A s \in FileSlots :
            (FilePicked(s) /\ Truthy(ObjGet(storage.text, s)))
              => (storage'.has /\ ObjGet(storage'.text, s) = ObjGet(storage.text, s))]_vars

RetryTimers == {t \in timers : t.kind = "retry"}

\* C14: a failed push adds exactly 1 to retryCount; when the new value is below
\* 3 exactly one retry of the same data is scheduled 5 seconds later and no
\* notice is shown, otherwise no retry is scheduled and the offline notice is
\* shown.
PushFailureHandling ==
  [][\A r \in pushes :
       PushResponse(r, FALSE) =>
         /\ retryCount' = retryCount + 1
         /\ IF retryCount' < 3
              THEN /\ \E t \in timers' \ timers :
                        /\ timers' = timers \cup {t}
                        /\ t.kind = "retry" /\ t.due = now + 5 /\ t.data = r.data
                   /\ errorMsg' = errorMsg
              ELSE /\ timers' = timers
                   /\ errorMsg' = OfflineNotice]_vars

\* C14 witness: the third failure has shown the notice while the retry of an
\* earlier failure is still scheduled
OfflineAfterRetries ==
  /\ errorMsg = OfflineNotice
  /\ retryCount = 3
  /\ RetryTimers # {}

\* C15: a push answered with success sets lastSyncTime to the current time and
\* retryCount to 0; a failed push leaves lastSyncTime alone.
PushSuccessHandling ==
  [][\A r \in pushes :
       /\ PushResponse(r, TRUE) => (lastSyncTime' = DateNow /\ retryCount' = 0)
       /\ PushResponse(r, FALSE) => lastSyncTime' = lastSyncTime]_vars

\* C15 witness: a success has reset the count after a failure whose retry is
\* still scheduled
SuccessAfterFailure ==
  /\ lastSyncTime = DateNow
  /\ retryCount = 0
  /\ RetryTimers # {}

\* the debounced save of this step started a remote push (or the token fetch
\* that precedes it)
PushStarted == pushes' # pushes \/ tokenFetches' # tokenFetches

\* C16 as stated: a debounced save starts a push if and only if no push has
\* succeeded yet or at least 30 seconds have passed since the last success.
SyncCondition ==
  [][\A t \in timers :
       (TimerFire(t) /\ t.kind = "debounce" /\ enabled)
         => (PushStarted <=> (lastSyncTime = 0 \/ DateNow - lastSyncTime >= 30))]_vars

\* C16 amended: a debounced save starts a push if and only if no push has
\* succeeded yet or more than 30 seconds have passed since the last success; a
\* forced save always starts one.
SyncConditionStrict ==
  [][/\ \A t \in timers :
          (TimerFire(t) /\ t.kind = "debounce" /\ enabled)
            => (PushStarted <=> (lastSyncTime = 0 \/ DateNow - lastSyncTime > 30))
     /\ (BeforeUnload(TRUE) /\ enabled /\ hasUnsavedChanges) => PushStarted]_vars

\* C16 witness: a debounced save ran exactly 30 seconds after the last success
\* and started no push
SavedAtIntervalBoundary ==
  /\ lastSyncTime # 0
  /\ storage.has
  /\ ObjGet(storage.text, "_timestamp") = DateNow
  /\ DateNow - lastSyncTime = 30
  /\ pushes = {}

\* C18: with failed pushes behind it, also after the offline notice, a debounced
\* save of an enabled instance writes the current snapshot to storage.
LocalSaveAfterFailures ==
  [][\A t \in timers :
       (TimerFire(t) /\ t.kind = "debounce" /\ enabled /\ ~quotaExceeded /\ retryCount > 0)
         => (storage'.has /\ storage'.valid /\ storage'.text = JSONstringify(getFormData))]_vars

\* C18 witness: the offline notice is shown and storage holds a snapshot written
\* in the current second, later than the notice
SavedWhileOffline ==
  /\ errorMsg = OfflineNotice
  /\ retryCount >= MAX_RETRIES
  /\ now > SAVE_INTERVAL
  /\ storage.has
  /\ ObjGet(storage.text, "_timestamp") = DateNow

\* C17: no autoSaveForm request is outstanding without a token; a push whose
\* token fetch fails is abandoned with retryCount and the timers unchanged, and
\* only when that was the second token fetch in a row to fail.
TokenPrecondition ==
  [][/\ pushes' # {} => csrfToken' # Null
     /\ \A r \in tokenFetches :
          (TokenResponse(r, FALSE) /\ r.data.cont = "sync" /\ csrfToken' = Null)
            => /\ retryCount' = retryCount
               /\ timers' = timers
               /\ pushes' = pushes
               /\ tokenFailures' >= 2]_vars

\* C19: over a stored string that does not parse, restoreSavedData returns to
\* its caller without changing a field or a label, and afterwards field activity
\* still arms the debounce timer and the debounced save writes a snapshot.
CorruptionTolerance ==
  [][/\ (DOMContentLoaded /\ storage.has /\ ~storage.valid)
          => (dom' = dom /\ labels' = labels /\ page' = "ready")
     /\ \A f \in DOMAIN dom : \A i \in DOMAIN dom[f], v \in Values :
          (UserInput(f, i, v) /\ enabled /\ storage.has /\ ~storage.valid)
            => \E t \in timers' : t.kind = "debounce" /\ t.id = saveTimer'
     /\ \A t \in timers :
          (TimerFire(t) /\ t.kind = "debounce" /\ enabled /\ ~storage.valid)
            => (storage'.has /\ storage'.valid)]_vars

\* C19 witness: the page was loaded over the corrupt item, which is still in
\* storage, and the user's input has armed the debounce timer
ActivityAfterCorruptLoad ==
  /\ page = "ready"
  /\ storage.has /\ ~storage.valid
  /\ DebounceTimers # {}
  /\ \E i \in DOMAIN dom[MembershipForm] : dom[MembershipForm][i].value = "a"

\* C20: when setItem throws, a save or an upload answer leaves the stored item
\* as it was and enabled, retryCount, saveTimer and the indicator unchanged, and
\* the caller goes on: a debounced save whose sync is due still starts its push.
StorageWriteFailure ==
  [][/\ (/\ quotaExceeded
         /\ \/ \E t \in timers : TimerFire(t)
            \/ \E stay \in BOOLEAN : BeforeUnload(stay)
            \/ \E u \in uploads, fileUrl \in FileUrls : UploadResponse(u, fileUrl))
          => /\ storage' = storage
             /\ page' # "unloaded"
                  => /\ enabled' = enabled /\ retryCount' = retryCount
                     /\ saveTimer' = saveTimer /\ indicator' = indicator
     /\ \A t \in timers :
          (quotaExceeded /\ TimerFire(t) /\ t.kind = "debounce" /\ enabled /\ SyncDue(FALSE))
            => PushStarted]_vars

\* C20 witness: with the quota exceeded a debounced save has sent the typed
\* value to the server while storage holds no item
PushedButNotStored ==
  /\ quotaExceeded
  /\ ~storage.has
  /\ \E r \in pushes : ObjGet(r.data, "firstName") = "a"

\* C21: every file slot entry of the stored snapshot is a non-empty reference,
\* and an entry appears or changes only in the step in which the upload of that
\* slot is answered with that reference.
FileRefInvariant ==
  [][(storage'.has /\ storage'.valid)
       => \A s \in FileSlots :
            ObjHas(storage'.text, s)
              => /\ Truthy(ObjGet(storage'.text, s))
                 /\ \/ /\ storage.has /\ storage.valid
                       /\ ObjGet(storage.text, s) = ObjGet(storage'.text, s)
                    \/ \E u \in uploads :
                         /\ u.data.input = s
                         /\ UploadResponse(u, ObjGet(storage'.text, s))]_vars

\* C22: every write of a snapshot stores the field values the form has at the
\* time of the write, stamped with the time of the write, and the stamp of the
\* snapshot it replaces is not later.
LatestInputPersisted ==
  [][(storage' # storage /\ storage'.has /\ ~quotaExceeded /\ currentFormId \in DOMAIN dom)
       => /\ FieldsOf(storage'.text) = JSONstringify(CurrentFields)
          /\ ObjGet(storage'.text, "_timestamp") = DateNow
          /\ (storage.has /\ storage.valid /\ ObjHas(storage.text, "_timestamp"))
               => ObjGet(storage.text, "_timestamp") <= ObjGet(storage'.text, "_timestamp")]_vars

\* C22 witness: storage holds a snapshot captured later than the one a push
\* still in flight carries: a later save has replaced the snapshot of an
\* earlier one
ReplacedByLaterCapture ==
  /\ storage.has /\ storage.valid
  /\ \E r \in pushes :
       ObjGet(r.data, "_timestamp") < ObjGet(storage.text, "_timestamp")

Captured ==
  {i \in DOMAIN dom[currentFormId] :
     /\ dom[currentFormId][i].type # "file"
     /\ (dom[currentFormId][i].name # "" \/ dom[currentFormId][i].id # "")}

\* C24: the map getFormData returns has no key of a file input and no entry for
\* an element without name and id: its entries are those of the other elements
\* plus the two metadata entries, which are all it holds for an empty form.
ExtractorExclusions ==
  currentFormId \in DOMAIN dom =>
    LET m == getFormData IN
    /\ \A i \in DOMAIN dom[currentFormId] :
         dom[currentFormId][i].type = "file" => ~ObjHas(m, KeyOf(dom[currentFormId][i]))
    /\ ~ObjHas(m, "")
    /\ \A i \in Captured : ObjHas(m, KeyOf(dom[currentFormId][i]))
    /\ Len(m) = Cardinality(Captured) + 2
    /\ dom[currentFormId] = <<>> => Len(FieldsOf(m)) = 0

\* C24 witness: the debounced save has stored the extraction of a form that has
\* a file input and an element without name and id next to a named field
ExtractedWithExclusions ==
  /\ page = "ready"
  /\ storage.has /\ storage.valid
  /\ Len(storage.text) = 3
  /\ ObjGet(storage.text, "firstName") = "a"
  /\ \E i, j \in DOMAIN dom[MembershipForm] :
       /\ dom[MembershipForm][i].type = "file"
       /\ dom[MembershipForm][j].name = "" /\ dom[MembershipForm][j].id = ""

\* C25: at page load the 'Restored previous session' notice is shown exactly
\* when a snapshot was applied, and another notice is shown when none was.
RestoreNotice ==
  [][DOMContentLoaded
       => LET applied == restoreSavedData(dom, labels, currentFormId').applied IN
          /\ indicator' = "Restored previous session" <=> applied
          /\ ~applied => indicator' \notin {indicator, "Restored previous session"}]_vars

\* C26: an autoSaveForm request that was sent is eventually over, as a success
\* or as a counted failure, also when the endpoint never answers.
BoundedWait == (pushes # {}) ~> (pushes = {})

\* a snapshot without its capture time
WithoutTimestamp(o) == SelectSeq(o, LAMBDA p : p.k # "_timestamp")

\* C27: when the field values of the form equal those of the stored snapshot,
\* hasUnsavedChanges is false and the beforeunload handler leaves storage alone
\* and asks for no confirm-leave prompt.
LeavePromptOnlyForChanges ==
  [][((\E stay \in BOOLEAN : BeforeUnload(stay))
        /\ storage.has /\ storage.valid
        /\ WithoutTimestamp(storage.text) = WithoutTimestamp(JSONstringify(getFormData)))
       => (~hasUnsavedChanges /\ storage' = storage /\ ~BeforeUnload(TRUE))]_vars

\* C28: the endpoint accepts no snapshot captured earlier than one it has
\* accepted before.
RemoteOrdering ==
  [][\A r \in pushes :
       (PushResponse(r, TRUE) /\ ObjHas(r.data, "_timestamp"))
         => ObjGet(r.data, "_timestamp") >= accepted]_vars

\* ------------------------------------------------------------ OTP component
MaxOtpTime == 31

\* everything of the form page except the clock and the event count
formState == <<page, domVars, indicator, errorMsg, storage, svcVars, timers, netVars,
               histVars, tokenFailures, quotaExceeded, accepted>>

\* the user types into .otp-input (autoSubmit is off by default)
OtpInput(v) ==
  /\ ~otpVerification.inputDisabled
  /\ otpVerification' = [otpVerification EXCEPT !.input = v]
  /\ UNCHANGED <<now, events, formState, otpMap, otpSpent, otpCall>>

\* click on .send-otp: sendOtp runs up to its await
SendOtpClicked(otp) ==
  /\ ~otpVerification.sendDisabled
  /\ otpVerification' = OtpVerification_sendOtp(otpVerification, otp)
  /\ UNCHANGED <<now, events, formState, otpMap, otpSpent, otpCall>>

\* callOtpApi resolves a second after the call and sendOtp finishes
OtpApiResolved ==
  /\ otpVerification.apiDue # 0
  /\ now >= otpVerification.apiDue
  /\ otpVerification' = OtpVerification_sent(otpVerification)
  /\ UNCHANGED <<now, events, formState, otpMap, otpSpent, otpCall>>

\* click on .verify-otp
VerifyOtpClicked ==
  /\ ~otpVerification.verifyDisabled
  /\ otpVerification' = OtpVerification_verifyOtp(otpVerification)
  /\ UNCHANGED <<now, events, formState, otpMap, otpSpent, otpCall>>

\* a second passes; the resend countdown, if running, fires
OtpTick ==
  /\ now < MaxOtpTime
  /\ otpVerification.apiDue = 0 \/ otpVerification.apiDue > now
  /\ now' = now + 1
  /\ otpVerification' = ResendTimerTick(otpVerification)
  /\ UNCHANGED <<events, formState, otpMap, otpSpent, otpCall>>

InitOtpVerification ==
  /\ \E r \in Recipients : otpVerification = OtpVerification(r)
  /\ otpMap = NoOtps
  /\ otpSpent = [i \in Identifiers |-> ""]
  /\ otpCall = NoCall
  /\ now = 0
  /\ page = "loading"
  /\ formOrder \in Layouts
  /\ dom = [f \in Range(formOrder) |-> BlankForm(f)]
  /\ labels = [s \in FileSlots |-> ""]
  /\ indicator = ""
  /\ errorMsg = ""
  /\ storage = NoItem
  /\ enabled = TRUE
  /\ retryCount = 0
  /\ saveTimer = 0
  /\ currentFormId = Null
  /\ csrfToken = Null
  /\ lastSyncTime = 0
  /\ timers = {}
  /\ pushes = {}
  /\ tokenFetches = {}
  /\ uploads = {}
  /\ submitting = FALSE
  /\ submitted = FALSE
  /\ lastActivity = 0
  /\ rearmed = FALSE
  /\ events = 0
  /\ tokenFailures = 0
  /\ quotaExceeded = FALSE
  /\ accepted = 0

OtpVerificationNext ==
  \/ \E v \in OtpInputs : OtpInput(v)
  \/ \E otp \in OtpCodes : SendOtpClicked(otp)
  \/ OtpApiResolved
  \/ VerifyOtpClicked
  \/ OtpTick

SpecOtpVerification == InitOtpVerification /\ [][OtpVerificationNext]_vars

\* C29: once attempts reached maxAttempts and a new OTP was sent after that,
\* verifying the newly issued code sets verified to true.
OtpLockoutRecovery ==
  [][(VerifyOtpClicked
        /\ otpVerification.attempts >= maxAttempts
        /\ otpVerification.resent
        /\ otpVerification.apiDue = 0
        /\ Trim(otpVerification.input) = otpVerification.otp)
       => otpVerification'.verified]_vars

\* ------------------------------------------------------------ OTP service
MaxOtpSteps == 3

\* a caller stores a freshly generated code for an identifier
StoreOtp(identifier, otp) ==
  /\ otpMap' = storeOtp(otpMap, identifier, otp)
  /\ otpSpent' = [otpSpent EXCEPT ![identifier] = ""]
  /\ otpCall' = [op |-> "storeOtp", identifier |-> identifier, otp |-> otp,
                 result |-> FALSE, spent |-> ""]
  /\ UNCHANGED <<now, events, formState, otpVerification>>

\* a caller checks a code for an identifier
VerifyOtp(identifier, otp) ==
  LET r == OtpService_verifyOtp(otpMap, identifier, otp) IN
  /\ otpMap' = r.map
  /\ otpSpent' = IF identifier \in DOMAIN otpMap
                   THEN [otpSpent EXCEPT ![identifier] = otpMap[identifier].otp]
                   ELSE otpSpent
  /\ otpCall' = [op |-> "verifyOtp", identifier |-> identifier, otp |-> otp,
                 result |-> r.result, spent |-> otpSpent[identifier]]
  /\ UNCHANGED <<now, events, formState, otpVerification>>

\* time passes between two calls: a second, or a second less than the expiry
OtpLater(d) ==
  /\ events < MaxOtpSteps
  /\ events' = events + 1
  /\ now' = now + d
  /\ UNCHANGED <<formState, otpVars>>

OtpServiceNext ==
  \/ \E i \in Identifiers, otp \in OtpCodes : StoreOtp(i, otp)
  \/ \E i \in Identifiers, otp \in OtpCodes : VerifyOtp(i, otp)
  \/ \E d \in {1, otpExpiry - 1} : OtpLater(d)

SpecOtpService == Init /\ [][OtpServiceNext]_vars

\* C30: verifyOtp returns true only for an identifier that no verifyOtp call
\* has used since its last storeOtp, with the code stored for it, and no later
\* than the expiry, five minutes after the storeOtp.
OtpOneTimeUse ==
  [][\A i \in Identifiers, otp \in OtpCodes :
       (VerifyOtp(i, otp) /\ otpCall'.result)
         => /\ otpSpent[i] = ""
            /\ i \in DOMAIN otpMap
            /\ otpMap[i].otp = otp
            /\ DateNow <= otpMap[i].expiry]_vars

\* a second verifyOtp with the code the first one consumed returned false
OtpSecondVerifyRefused ==
  /\ otpCall.op = "verifyOtp"
  /\ otpCall.spent = otpCall.otp
  /\ ~otpCall.result

====
